---- MODULE Spec2Model ----
(***************************************************************************)
(* Procedural Mondrian generator (sammymax/mondrian).                      *)
(*                                                                         *)
(* The repository holds two versions of one React component whose          *)
(* generate() callback paints a canvas from a seed:                        *)
(*   src/unnamed/part_000  wobbly flat fills, four line tiers, overlay     *)
(*   src/gen2.js           brush-stroke fills, three line tiers            *)
(* A run is modelled as a record (the closure state of one generate()      *)
(* call); the field `variant` says which of the two files is running.      *)
(*                                                                         *)
(* Number model.  JavaScript numbers are IEEE doubles.  The PRNG state     *)
(* update multiplies a 31-bit state by a 30-bit constant, so the product   *)
(* does not fit a double and its rounding decides the stream: random() is  *)
(* modelled bit-exactly, rounding included.  Every other quantity is       *)
(* modelled as the exact rational the expression denotes (a numerator      *)
(* over a power of 2^31-1 times a power of 10), computed with the          *)
(* arbitrary-precision operators below because TLC integers are 32 bits.   *)
(***************************************************************************)
EXTENDS Integers, Sequences, FiniteSets, TLC

(***************************************************************************)
(* Arbitrary-precision naturals: little-endian sequences of base-10000     *)
(* limbs without trailing zero limbs (zero is the empty sequence).         *)
(***************************************************************************)
BASE == 100 * 100

Dig(a, i) == IF i <= Len(a) THEN a[i] ELSE 0

RECURSIVE NatOf(_)
NatOf(n) == IF n = 0 THEN <<>> ELSE <<n % BASE>> \o NatOf(n \div BASE)

RECURSIVE Strip(_)
Strip(a) == IF Len(a) = 0 \/ a[Len(a)] # 0 THEN a ELSE Strip(SubSeq(a, 1, Len(a) - 1))

RECURSIVE NAddC(_, _, _, _)
NAddC(a, b, i, c) ==
  IF i > Len(a) /\ i > Len(b)
  THEN IF c = 0 THEN <<>> ELSE <<c>>
  ELSE LET t == Dig(a, i) + Dig(b, i) + c
       IN <<t % BASE>> \o NAddC(a, b, i + 1, t \div BASE)

NAdd(a, b) == NAddC(a, b, 1, 0)

\* a - b for a >= b
RECURSIVE NSubC(_, _, _, _)
NSubC(a, b, i, c) ==
  IF i > Len(a) THEN <<>>
  ELSE LET t == a[i] - Dig(b, i) - c
       IN IF t < 0 THEN <<t + BASE>> \o NSubC(a, b, i + 1, 1)
          ELSE <<t>> \o NSubC(a, b, i + 1, 0)

NSub(a, b) == Strip(NSubC(a, b, 1, 0))

RECURSIVE NCmpAt(_, _, _)
NCmpAt(a, b, i) ==
  IF i = 0 THEN 0
  ELSE IF a[i] < b[i] THEN -1
  ELSE IF a[i] > b[i] THEN 1
  ELSE NCmpAt(a, b, i - 1)

\* -1, 0 or 1 as a < b, a = b, a > b
NCmp(a, b) ==
  IF Len(a) < Len(b) THEN -1
  ELSE IF Len(a) > Len(b) THEN 1
  ELSE NCmpAt(a, b, Len(a))

\* a * m for a limb-sized factor 0 <= m < BASE
RECURSIVE NMulC(_, _, _, _)
NMulC(a, m, i, c) ==
  IF i > Len(a)
  THEN IF c = 0 THEN <<>> ELSE <<c>>
  ELSE LET t == a[i] * m + c
       IN <<t % BASE>> \o NMulC(a, m, i + 1, t \div BASE)

NMulLimb(a, m) == IF m = 0 THEN <<>> ELSE NMulC(a, m, 1, 0)

RECURSIVE NMulAt(_, _, _)
NMulAt(a, b, i) ==
  IF i > Len(b) THEN <<>>
  ELSE LET rest == NMulAt(a, b, i + 1)
           shifted == IF Len(rest) = 0 THEN <<>> ELSE <<0>> \o rest
       IN NAdd(NMulLimb(a, b[i]), shifted)

NMul(a, b) == IF Len(a) = 0 \/ Len(b) = 0 THEN <<>> ELSE NMulAt(a, b, 1)

(***************************************************************************)
(* Exact rationals: (neg ? -1 : 1) * mag / ((2^31-1)^k * 10^j).  The       *)
(* denominators the code produces are of this form: random() divides by    *)
(* 0x7fffffff and the literals are decimal fractions.                      *)
(***************************************************************************)
MNat == <<3647, 4748, 21>>          \* 0x7fffffff = 2147483647 in limbs of BASE

Max(a, b) == IF a >= b THEN a ELSE b
Min(a, b) == IF a <= b THEN a ELSE b

RECURSIVE Scale(_, _, _)
Scale(m, k, j) ==
  IF k > 0 THEN Scale(NMul(m, MNat), k - 1, j)
  ELSE IF j > 0 THEN Scale(NMulLimb(m, 10), 0, j - 1)
  ELSE m

Rat(neg, mag, k, j) == [neg |-> neg /\ Len(mag) > 0, mag |-> mag, k |-> k, j |-> j]

\* the integer n
RInt(n) == IF n >= 0 THEN Rat(FALSE, NatOf(n), 0, 0) ELSE Rat(TRUE, NatOf(-n), 0, 0)
\* the decimal n / 10^j, e.g. RDec(7, 1) = 0.7
RDec(n, j) == Rat(FALSE, NatOf(n), 0, j)

RAlign(a, k, j) == Rat(a.neg, Scale(a.mag, k - a.k, j - a.j), k, j)

RNeg(a) == Rat(~a.neg, a.mag, a.k, a.j)

\* x + y for x and y over one denominator
AddAligned(x, y) ==
  IF x.neg = y.neg THEN Rat(x.neg, NAdd(x.mag, y.mag), x.k, x.j)
  ELSE IF NCmp(x.mag, y.mag) >= 0 THEN Rat(x.neg, NSub(x.mag, y.mag), x.k, x.j)
  ELSE Rat(y.neg, NSub(y.mag, x.mag), x.k, x.j)

RAdd(a, b) ==
  AddAligned(RAlign(a, Max(a.k, b.k), Max(a.j, b.j)),
             RAlign(b, Max(a.k, b.k), Max(a.j, b.j)))

RSub(a, b) == RAdd(a, RNeg(b))

RMul(a, b) == Rat(a.neg # b.neg, NMul(a.mag, b.mag), a.k + b.k, a.j + b.j)

\* -1, 0 or 1 as a < b, a = b, a > b
CmpAligned(x, y) ==
  IF x.neg /\ ~y.neg THEN -1
  ELSE IF ~x.neg /\ y.neg THEN 1
  ELSE IF x.neg THEN NCmp(y.mag, x.mag)
  ELSE NCmp(x.mag, y.mag)

RCmp(a, b) ==
  CmpAligned(RAlign(a, Max(a.k, b.k), Max(a.j, b.j)),
             RAlign(b, Max(a.k, b.k), Max(a.j, b.j)))

RLt(a, b) == RCmp(a, b) < 0
RLe(a, b) == RCmp(a, b) <= 0
REq(a, b) == RCmp(a, b) = 0
RMax(a, b) == IF RLt(a, b) THEN b ELSE a      \* Math.max
RMin(a, b) == IF RLt(b, a) THEN b ELSE a      \* Math.min

\* q <= a for an integer q, den being the denominator of a
IntLeRat(q, a, den) ==
  IF q >= 0
  THEN ~a.neg /\ NCmp(NMul(NatOf(q), den), a.mag) <= 0
  ELSE ~a.neg \/ NCmp(NMul(NatOf(-q), den), a.mag) >= 0

RECURSIVE FloorSearch(_, _, _, _)
FloorSearch(a, den, lo, hi) ==
  IF lo >= hi THEN lo
  ELSE LET mid == (lo + hi + 1) \div 2
       IN IF IntLeRat(mid, a, den) THEN FloorSearch(a, den, mid, hi)
          ELSE FloorSearch(a, den, lo, mid - 1)

\* Math.floor(a) for lo <= a < hi + 1
RFloor(a, lo, hi) == FloorSearch(a, Scale(<<1>>, a.k, a.j), lo, hi)

(***************************************************************************)
(* Seeded PRNG: the closure `random` of generate().                        *)
(*   s = (s * 1103515245 + 12345) & 0x7fffffff;  return s / 0x7fffffff;    *)
(* The product and the sum are doubles: each is rounded to 53 significant  *)
(* bits (ties to even) before & truncates it to its low 31 bits.  A        *)
(* magnitude below 2^62 is held as <<hi, lo>> = hi * 2^31 + lo.            *)
(***************************************************************************)
IntMax == 2147483647                \* 0x7fffffff

Pow2(k) ==
  CASE k = 0 -> 1 [] k = 1 -> 2 [] k = 2 -> 4 [] k = 3 -> 8 [] k = 4 -> 16
    [] k = 5 -> 32 [] k = 6 -> 64 [] k = 7 -> 128 [] k = 8 -> 256 [] k = 9 -> 512
    [] k = 10 -> 1024

\* how many low bits a 53-bit significand cannot hold: bit length of
\* hi * 2^31 + lo, minus 53 (hi < 2^22 fits exactly)
DropBits(h) ==
  IF h < 4194304 THEN 0 ELSE IF h < 8388608 THEN 1 ELSE IF h < 16777216 THEN 2
  ELSE IF h < 33554432 THEN 3 ELSE IF h < 67108864 THEN 4
  ELSE IF h < 134217728 THEN 5 ELSE IF h < 268435456 THEN 6
  ELSE IF h < 536870912 THEN 7 ELSE IF h < 1073741824 THEN 8 ELSE 9

\* v rounded to a multiple of q = 2^k, ties to the even multiple
RoundTo(v, q) ==
  IF 2 * (v[2] % q) > q \/ (2 * (v[2] % q) = q /\ (v[2] \div q) % 2 = 1)
  THEN IF v[2] - (v[2] % q) = IntMax - (q - 1) THEN <<v[1] + 1, 0>>
       ELSE <<v[1], v[2] - (v[2] % q) + q>>
  ELSE <<v[1], v[2] - (v[2] % q)>>

\* round-to-nearest-even of the magnitude v to a double
RoundDouble(v) == RoundTo(v, Pow2(DropBits(v[1])))

\* x * 1103515245 for 0 <= x < 2^31 (1103515245 = 16838 * 2^16 + 20077)
\* as <<hi, lo>> = hi * 2^31 + lo, from the 16-bit digits d3 d2 d1 d0 of
\* the sum of the partial products top * 2^32 + mid * 2^16 + low
Digits(d3, t2, d1, d0) ==
  <<(d3 + (t2 \div 65536)) * 131072 + (t2 % 65536) * 2 + (d1 \div 32768),
    (d1 % 32768) * 65536 + d0>>

Partial(top, mid, t1, d0) ==
  Digits(top \div 65536, (top % 65536) + (mid \div 65536) + (t1 \div 65536),
         t1 % 65536, d0)

Product(top, mid, low) ==
  Partial(top, mid, (mid % 65536) + (low \div 65536), low % 65536)

MulA(x) ==
  Product((x \div 65536) * 16838,
          (x \div 65536) * 20077 + (x % 65536) * 16838,
          (x % 65536) * 20077)

\* v + c and v - c for <<hi, lo>> and 0 <= c < 2^31
AddC(v, c) ==
  IF v[2] > IntMax - c THEN <<v[1] + 1, v[2] - (IntMax - c) - 1>>
  ELSE <<v[1], v[2] + c>>

SubC(v, c) ==
  IF v[2] >= c THEN <<v[1], v[2] - c>>
  ELSE <<v[1] - 1, (IntMax - c) + 1 + v[2]>>

\* the low 31 bits of the two's complement of -m, 0 <= m < 2^31
Wrap(m) == IF m = 0 THEN 0 ELSE (IntMax - m) + 1

\* the LCG over the integers modulo 2^31, without the rounding of doubles
LcgExactNeg(p) ==
  IF p[1] = 0 /\ p[2] < 12345 THEN 12345 - p[2] ELSE Wrap(SubC(p, 12345)[2])

LcgStepExact(x) ==
  IF x >= 0 THEN AddC(MulA(x), 12345)[2] ELSE LcgExactNeg(MulA(-x))

\* (-p + 12345) & 0x7fffffff for the rounded product p of a negative s
LcgNeg(p) ==
  IF p[1] = 0 /\ p[2] < 12345 THEN 12345 - p[2]
  ELSE Wrap(RoundDouble(SubC(p, 12345))[2])

\* s = (s * 1103515245 + 12345) & 0x7fffffff, for -2^31 < x < 2^31
LcgStep(x) ==
  IF x >= 0 THEN RoundDouble(AddC(RoundDouble(MulA(x)), 12345))[2]
  ELSE LcgNeg(RoundDouble(MulA(-x)))

\* return s / 0x7fffffff
RandVal(x) == Rat(FALSE, NatOf(x), 1, 0)

\* the new state s with the value s / 0x7fffffff it returns
Drawn(s) == [s |-> s, v |-> RandVal(s)]

\* one call of random(): the new state and the value returned
random(x) == Drawn(LcgStep(x))

\* n calls of random() in a row from state s, as a sequence of draws
RECURSIVE randoms(_, _)
Following(d, n) == <<d>> \o randoms(d.s, n - 1)
randoms(s, n) == IF n = 0 THEN <<>> ELSE Following(random(s), n)

\* the state after n calls of random() whose values do not steer control
RECURSIVE Draws(_, _)
Draws(x, n) ==
  IF n = 0 THEN x
  ELSE IF n = 1 THEN LcgStep(x)
  ELSE LET y == Draws(x, n \div 2)
       IN IF y >= 0 THEN Draws(y, n - (n \div 2)) ELSE y

\* Math.floor(random() * n) for the value v of a draw and 1 <= n <= 8
FloorTimes(v, n) == RFloor(RMul(v, RInt(n)), 0, n)

(***************************************************************************)
(* Gradient noise: createNoise().  Math.random() is the ambient, unseeded  *)
(* source; a run's sequence of Math.random() values is an input, drawn     *)
(* from the family `Streams` (call number idx returns                      *)
(* ((a * idx + c) mod 1024) / 1024 for a stream <<a, c>>).                 *)
(***************************************************************************)
Streams == {<<0, 0>>, <<7, 512>>}

MathRandom(stream, idx) == (stream[1] * idx + stream[2]) % 1024

\* an iteration that copies perm[j] to perm[i] without the exchange: what C12 rules out
CopyAt(perm, i, m) == [perm EXCEPT ![i] = perm[(m * (i + 1)) \div 1024]]

\* one iteration of the shuffle for the value m / 1024 of Math.random()
SwapAt(perm, i, m) ==
  [perm EXCEPT ![i] = perm[(m * (i + 1)) \div 1024], ![(m * (i + 1)) \div 1024] = perm[i]]

\* one iteration of the shuffle: j = floor(Math.random() * (i + 1)); swap
Swap(perm, i, stream) ==
  LET j == (MathRandom(stream, 255 - i) * (i + 1)) \div 1024
  IN [perm EXCEPT ![i] = perm[j], ![j] = perm[i]]

\* the iterations i = hi, hi - 1, .., lo of the shuffle, upper half first
RECURSIVE Shuffle(_, _, _, _)
Shuffle(perm, hi, lo, stream) ==
  IF hi < lo THEN perm
  ELSE IF hi = lo THEN Swap(perm, hi, stream)
  ELSE LET mid == (hi + lo + 1) \div 2
           upper == Shuffle(perm, hi, mid, stream)
       IN IF upper[0] >= 0 THEN Shuffle(upper, mid - 1, lo, stream) ELSE upper

\* for (i = 0; i < 256; i++) perm[i] = i; for (i = 255; i > 0; i--) swap;
\* the table p = [...perm, ...perm]; p[i] of the code is At(p, i)
Table(perm) == [i \in 1..512 |-> perm[(i - 1) % 256]]

createNoise(stream) == Table(Shuffle([i \in 0..255 |-> i], 255, 1, stream))

At(p, i) == p[i + 1]

fade(t) == RMul(RMul(RMul(t, t), t), RAdd(RMul(t, RSub(RMul(t, RInt(6)), RInt(15))), RInt(10)))
lerp(t, a, b) == RAdd(a, RMul(t, RSub(b, a)))
grad(hash, x) == IF hash % 2 = 1 THEN x ELSE RNeg(x)

\* the cell X = Math.floor(x) & 255 of a sample at x, 0 <= x < 2048
NoiseCell(x) == RFloor(x, 0, 2047) % 256

\* the indices of p that a sample at x reads: p[X] and p[X + 1]
NoiseReads(x) == {NoiseCell(x), NoiseCell(x) + 1}

\* the closure returned by createNoise, applied to x
noise(p, x) ==
  LET X == NoiseCell(x)
      f == RSub(x, RInt(RFloor(x, 0, 2047)))
  IN lerp(fade(f), grad(At(p, X), f), grad(At(p, X + 1), RSub(f, RInt(1))))

(***************************************************************************)
(* Palette.  A colour '#rrggbb' is held as the integer parseInt gives.     *)
(***************************************************************************)
Variants == {"part_000", "gen2"}

colors(variant) ==
  IF variant = "part_000"
  THEN [red |-> <<14883877, 16717636, 13959168, 16711714>>,
        yellow |-> <<16771840, 16766464, 16771584, 16769280>>,
        blue |-> <<22015, 2718207, 17612, 3166206>>,
        black |-> <<1710618, 2171169>>,
        white |-> <<16448250, 16119285, 16775393>>,
        lightBlue |-> <<4244735, 45311, 8444159>>,
        lightGray |-> <<15527921, 14737632>>]
  ELSE [red |-> <<14883877, 16717636, 13959168>>,
        yellow |-> <<16771840, 16766464, 16771584>>,
        blue |-> <<22015, 2718207, 17612>>,
        black |-> <<1710618, 2171169>>,
        lightBlue |-> <<4244735, 45311, 8444159>>]

colorKeys == <<"red", "yellow", "blue", "red", "yellow", "blue", "black", "lightBlue">>

Undefined == -1                     \* arr[arr.length]

\* an index taken one too high, 1 .. arr.length: what C10 rules out
pickAbove(arr, v) == FloorTimes(v, Len(arr)) + 1

\* arr[Math.floor(random() * arr.length)] for the value v of the draw
pickIndex(arr, v) == FloorTimes(v, Len(arr))
pick(arr, v) == IF pickIndex(arr, v) < Len(arr) THEN arr[pickIndex(arr, v) + 1] ELSE Undefined

\* colors[colorKey]; a key the palette lacks gives undefined, and pick
\* then reads .length of undefined: modelled as the empty list
variants(variant, colorKey) ==
  IF colorKey \in DOMAIN colors(variant) THEN colors(variant)[colorKey] ELSE <<>>

hexToRgb(v) == <<(v \div 65536) % 256, (v \div 256) % 256, v % 256>>

\* Math.max(0, Math.min(255, Math.round(x))) of one channel, -64 <= x < 448
Channel(x) == Max(0, Min(255, RFloor(RAdd(x, RDec(5, 1)), -64, 448)))

rgbToHex(r, g, b) == Channel(r) * 65536 + Channel(g) * 256 + Channel(b)

(***************************************************************************)
(* The state of one generate() run.                                        *)
(***************************************************************************)
VARIABLES run, twin, turn, steps

vars == <<run, twin, turn, steps>>

Seeds == {1, 2}
Sizes == {<<600, 600>>, <<100, 100>>, <<0, 0>>}

NoSurface == [present |-> FALSE, width |-> 0, height |-> 0]
Surface(sz) == [present |-> TRUE, width |-> sz[1], height |-> sz[2]]

NoOp == [op |-> "none", a |-> <<>>]
NoOps == [fill |-> 0, texture |-> 0, block |-> 0, line |-> 0, overlay |-> 0]
Zero == RInt(0)

\* the component after construction: seed state, canvas ref, nothing run
NewRun(variant, seed, canvas) ==
  [pc |-> "idle", variant |-> variant, seed |-> seed, canvas |-> canvas,
   W |-> 0, H |-> 0, s |-> 0, draws |-> 0, p |-> <<>>,
   lines |-> <<>>, blocks |-> <<>>, numBlocks |-> 0, examined |-> 0,
   n |-> 0, i |-> 0,
   ops |-> NoOps, last |-> NoOp, composite |-> "source-over",
   paint |-> <<>>]

Off == [pc |-> "off"]

Is(r, v) == r.variant = v

Issue(r, kind, n, op) ==
  [r EXCEPT !.ops = [@ EXCEPT ![kind] = @ + n], !.last = op]

\* generate() without `if (!canvas) return`: what C7 rules out
generateUnguarded(r) ==
  [r EXCEPT !.pc = "noise", !.W = r.canvas.width, !.H = r.canvas.height, !.s = r.seed]

\* generate() up to `let s = seed` and the definition of random
generate(r) ==
  IF ~r.canvas.present THEN [r EXCEPT !.pc = "returned"]
  ELSE [r EXCEPT !.pc = "noise", !.W = r.canvas.width, !.H = r.canvas.height,
                 !.s = r.seed]

\* const noise = createNoise()
Noise(r, stream) == [r EXCEPT !.pc = "background", !.p = createNoise(stream)]

\* ctx.fillStyle = '#f8f5ef'; ctx.fillRect(0, 0, W, H)
Background(r) ==
  LET q == Issue(r, "fill", 1, [op |-> "fillRect", a |-> <<16315887, r.W, r.H>>])
  IN [q EXCEPT !.i = 0,
               !.pc = IF Is(r, "part_000") THEN "paper"
                      ELSE IF 0 < r.H THEN "weave" ELSE "numLongLines"]

PaperDots == 40000
OverlayDots == 15000

\* the loop of `dots` iterations that fills one speck per iteration from
\* three draws (alpha, x, y); `a` is the alpha factor in thousandths
Specks(r, dots, a, size, kind) ==
  LET s0 == Draws(r.s, 3 * (dots - 1))
      d1 == random(s0)
      d2 == random(d1.s)
      d3 == random(d2.s)
      op == [op |-> "fillRect",
             a |-> <<RMul(d1.v, RDec(a, 3)), RMul(d2.v, RInt(r.W)),
                     RMul(d3.v, RInt(r.H)), size>>]
  IN [Issue(r, kind, dots, op) EXCEPT !.s = d3.s, !.draws = @ + 3 * dots]

\* part_000: paper texture
PaperTexture(r) == [Specks(r, PaperDots, 25, 1, "texture") EXCEPT !.pc = "numLongLines"]

\* gen2: one row y = r.i of the canvas weave texture
WeaveRow(r) ==
  LET y == r.i
      cells == IF r.W > 0 THEN (r.W + 1) \div 2 ELSE 0
      x == 2 * (cells - 1)
      v == RMul(RAdd(RMul(noise(r.p, RMul(RInt(x), RDec(1, 1))),
                          noise(r.p, RMul(RInt(y), RDec(1, 1)))), RInt(1)), RDec(5, 1))
      op == [op |-> "fillRect", a |-> <<RMul(v, RDec(3, 2)), x, y, 2>>]
      q == IF cells > 0 THEN Issue(r, "texture", cells, op) ELSE r
  IN [q EXCEPT !.i = y + 2, !.pc = IF y + 2 < r.H THEN "weave" ELSE "numLongLines"]

(***************************************************************************)
(* Layout: the four line tiers and the colour blocks.                      *)
(***************************************************************************)
Gt(v, tenths) == RLt(RDec(tenths, 1), v)          \* v > 0.1 * tenths

Line(isVert, pos, a1, a2, t, tier) ==
  IF isVert THEN [x1 |-> pos, y1 |-> a1, x2 |-> pos, y2 |-> a2, t |-> t, tier |-> tier]
  ELSE [x1 |-> a1, y1 |-> pos, x2 |-> a2, y2 |-> pos, t |-> t, tier |-> tier]

\* entering a loop of n >= 1 iterations whose body is the action `body`
Loop(r, d, n, body) == [r EXCEPT !.s = d.s, !.draws = @ + 1, !.n = n, !.i = 0, !.pc = body]

\* leaving iteration r.i of the loop at `body`: again, or on to `next`
Again(r, body, next) == IF r.i + 1 < r.n THEN body ELSE next

\* const numLongLines = 2 + Math.floor(random() * 2)
NumLongLines(r) ==
  LET d == random(r.s) IN Loop(r, d, 2 + FloorTimes(d.v, 2), "longLine")

\* one iteration of the long/structural tier, d being the draws it may make:
\* d[1] isVert, d[2] thickness, d[3] x (or y); part_000 then draws the two
\* ends (y1 = random() * 80 - 20, y2 = H - random() * 80 + 20); then each
\* end is kept if random() > 0.3 and otherwise drawn again, further inside
LongLineOf(r, d, part) ==
  LET isVert == Gt(d[1].v, 5)
      across == IF isVert THEN r.W ELSE r.H
      along == IF isVert THEN r.H ELSE r.W
      n == IF part THEN 5 ELSE 3
      lo == IF part THEN RSub(RMul(d[4].v, RInt(80)), RInt(20)) ELSE RInt(-20)
      hi == IF part THEN RAdd(RSub(RInt(along), RMul(d[5].v, RInt(80))), RInt(20))
            ELSE RInt(along + 20)
      m == IF Gt(d[n + 1].v, 3) THEN n + 1 ELSE n + 2
      used == IF Gt(d[m + 1].v, 3) THEN m + 1 ELSE m + 2
      a1 == IF m = n + 1 THEN lo ELSE RAdd(RInt(50), RMul(d[m].v, RInt(150)))
      a2 == IF used = m + 1 THEN hi ELSE RSub(RInt(along - 50), RMul(d[used].v, RInt(150)))
  IN [r EXCEPT !.s = d[used].s, !.draws = @ + used, !.i = @ + 1,
               !.lines = Append(@, Line(isVert, RAdd(RInt(60), RMul(d[3].v, RInt(across - 120))),
                                        a1, a2, RAdd(RDec(25, 1), RMul(d[2].v, RInt(4))), "long")),
               !.pc = Again(r, "longLine", "numMedLines")]

LongLine(r) == LongLineOf(r, randoms(r.s, 9), Is(r, "part_000"))

\* the count range, thickness (tenths), length and inset of the other tiers
Tier(tier) ==
  CASE tier = "med" -> [n0 |-> 3, nr |-> 3, t0 |-> 20, tr |-> 30, l0 |-> 80, lr |-> 200, inset |-> 30]
    [] tier = "short" -> [n0 |-> 4, nr |-> 5, t0 |-> 15, tr |-> 25, l0 |-> 30, lr |-> 80, inset |-> 20]
    [] tier = "dash" -> [n0 |-> 2, nr |-> 4, t0 |-> 10, tr |-> 20, l0 |-> 15, lr |-> 40, inset |-> 0]

\* const numMedLines = 3 + Math.floor(random() * 3), and the like
NumLines(r, tier, body) ==
  LET d == random(r.s) IN Loop(r, d, Tier(tier).n0 + FloorTimes(d.v, Tier(tier).nr), body)

\* one iteration of the medium, short or dash tier, d being its five draws:
\* isVert, thickness, length, x = inset + random() * (W - 2 * inset) and
\* y = random() * (H - length) (x and y exchanged for a horizontal segment)
SegmentOf(r, c, d, tier, body, next) ==
  LET isVert == Gt(d[1].v, 5)
      length == RAdd(RInt(c.l0), RMul(d[3].v, RInt(c.lr)))
      across == IF isVert THEN r.W ELSE r.H
      along == IF isVert THEN r.H ELSE r.W
      start == RMul(d[5].v, RSub(RInt(along), length))
  IN [r EXCEPT !.s = d[5].s, !.draws = @ + 5, !.i = @ + 1,
               !.lines = Append(@, Line(isVert,
                                        RAdd(RInt(c.inset), RMul(d[4].v, RInt(across - 2 * c.inset))),
                                        start, RAdd(start, length),
                                        RAdd(RDec(c.t0, 1), RMul(d[2].v, RDec(c.tr, 1))), tier)),
               !.pc = Again(r, body, next)]

Segment(r, tier, body, next) == SegmentOf(r, Tier(tier), randoms(r.s, 5), tier, body, next)

NumMedLines(r) == NumLines(r, "med", "medLine")
MedLine(r) == Segment(r, "med", "medLine", "numShortLines")
NumShortLines(r) == NumLines(r, "short", "shortLine")
ShortLine(r) ==
  Segment(r, "short", "shortLine", IF Is(r, "part_000") THEN "numDashes" ELSE "numBlocks")
NumDashes(r) == NumLines(r, "dash", "dash")
Dash(r) == Segment(r, "dash", "dash", "numBlocks")

\* block size range, inset and overlap threshold (tenths) of the two files
BlockMin(variant) == IF variant = "part_000" THEN 40 ELSE 50
BlockSpan(variant) == IF variant = "part_000" THEN 140 ELSE 130
Inset(variant) == IF variant = "part_000" THEN 20 ELSE 15
Threshold(variant) == IF variant = "part_000" THEN 7 ELSE 6

\* const numBlocks = 10 + Math.floor(random() * 8)
NumBlocks(r) ==
  LET d == random(r.s)
  IN [Loop(r, d, 10 + FloorTimes(d.v, 8), "block") EXCEPT
        !.numBlocks = 10 + FloorTimes(d.v, 8), !.examined = 0]

\* ox * oy of two rectangles
Intersection(a, b) ==
  LET ox == RMax(Zero, RSub(RMin(RAdd(a.x, a.w), RAdd(b.x, b.w)), RMax(a.x, b.x)))
      oy == RMax(Zero, RSub(RMin(RAdd(a.y, a.h), RAdd(b.y, b.h)), RMax(a.y, b.y)))
  IN RMul(ox, oy)

Area(a) == RMul(a.w, a.h)

\* the same test against the area of the earlier block b: what C4 rules out
TooMuchOfEarlier(c, b, tenths) == RLt(RMul(Area(b), RDec(tenths, 1)), Intersection(c, b))

\* if (ox * oy > w * h * 0.7) for the candidate c against the block b
TooMuch(c, b, tenths) == RLt(RMul(Area(c), RDec(tenths, 1)), Intersection(c, b))

\* the colour key colorKeys[Math.floor(random() * colorKeys.length)]
colorKey(v) ==
  IF FloorTimes(v, Len(colorKeys)) < Len(colorKeys)
  THEN colorKeys[FloorTimes(v, Len(colorKeys)) + 1] ELSE "undefined"

\* the candidate block of one iteration from its five draws w, h, x, y, col
CandidateOf(v, W, H, d) ==
  LET w == RAdd(RInt(BlockMin(v)), RMul(d[1].v, RInt(BlockSpan(v))))
      h == RAdd(RInt(BlockMin(v)), RMul(d[2].v, RInt(BlockSpan(v))))
  IN [s |-> d[5].s,
      b |-> [x |-> RAdd(RInt(Inset(v)), RMul(d[3].v, RSub(RInt(W - 2 * Inset(v)), w))),
             y |-> RAdd(RInt(Inset(v)), RMul(d[4].v, RSub(RInt(H - 2 * Inset(v)), h))),
             w |-> w, h |-> h, col |-> colorKey(d[5].v)]]

\* a candidate drawn from a state the noise table has perturbed: what C3 rules out
CandidateOfNoise(r) == CandidateOf(r.variant, r.W, r.H, randoms(r.s + At(r.p, 0), 5))

Candidate(r) == CandidateOf(r.variant, r.W, r.H, randoms(r.s, 5))

\* blocks.forEach(...): on to the first block, or to the lines if none
StartLines(r) ==
  [r EXCEPT !.i = 0, !.n = Len(r.lines),
            !.pc = IF Len(r.lines) > 0 THEN "drawLine"
                   ELSE IF Is(r, "part_000") THEN "overlayBegin" ELSE "done"]

StartBlocks(r) ==
  IF Len(r.blocks) = 0 THEN StartLines(r)
  ELSE [r EXCEPT !.i = 0, !.n = Len(r.blocks),
                 !.pc = IF Is(r, "part_000") THEN "drawRect" ELSE "paintRect"]

\* the next block of blocks.forEach, or the lines after the last one
NextBlock(r) ==
  IF r.i + 1 < r.n
  THEN [r EXCEPT !.i = @ + 1, !.pc = IF Is(r, "part_000") THEN "drawRect" ELSE "paintRect"]
  ELSE StartLines(r)

\* the end of one iteration of the placement loop: i++ and the test i < numBlocks
NextCandidate(q) == IF q.i < q.n THEN q ELSE StartBlocks(q)

\* let overlap = false; for (const b of blocks) if (...) { overlap = true; break }
Overlaps(c, blocks, tenths) == \E k \in 1..Len(blocks) : TooMuch(c, blocks[k], tenths)

\* a placement loop that tries again after a rejection (no i++): what C9 rules out
PlacedOrRetried(r, c) ==
  IF Overlaps(c.b, r.blocks, Threshold(r.variant))
  THEN [r EXCEPT !.s = c.s, !.draws = @ + 5, !.examined = @ + 1]
  ELSE NextCandidate([r EXCEPT !.s = c.s, !.draws = @ + 5, !.i = @ + 1, !.examined = @ + 1,
                               !.blocks = Append(@, c.b)])

\* if (!overlap) blocks.push({ x, y, w, h, col })
Placed(r, c) ==
  NextCandidate([r EXCEPT !.s = c.s, !.draws = @ + 5, !.i = @ + 1, !.examined = @ + 1,
                          !.blocks = IF Overlaps(c.b, r.blocks, Threshold(r.variant))
                                     THEN @ ELSE Append(@, c.b)])

\* one iteration of block placement: the candidate is pushed unless it
\* overlaps some accepted block too much
PlaceBlock(r) == Placed(r, Candidate(r))

(***************************************************************************)
(* Rendering.  The canvas is the environment: a run records how many       *)
(* operations of each phase it has issued (ops) and the one issued last    *)
(* with its arguments (last).  A path is recorded by the call that draws   *)
(* it (endpoints, style, first vertex), not vertex by vertex.              *)
(***************************************************************************)
\* Math.ceil of a for 0 <= a <= 4096: the trip count of `for (i = 0; i < a; i++)`
Trips(a) == 0 - RFloor(RNeg(a), -4096, 0)

Block(r) == r.blocks[r.i + 1]

\* part_000 drawRect, first half: pick the colour and fill three wobbly layers
DrawRect(r) ==
  LET b == Block(r)
      d1 == random(r.s)                               \* col = pick(colors[colorKey])
      col == pick(variants(r.variant, b.col), d1.v)
      d2 == random(d1.s)                              \* off = random() * 1000
      off == RMul(d2.v, RInt(1000))
      y0 == RAdd(b.y, RMul(noise(r.p, off), RDec(25, 1)))
      op == [op |-> "fill", a |-> <<col, RDec(2, 1), b.x, y0, b.w, b.h>>]
  IN IF b.col = "white" THEN NextBlock(r)
     ELSE [Issue(r, "block", 3, op) EXCEPT !.s = d2.s, !.draws = @ + 2, !.pc = "rectTexture"]

\* part_000 drawRect, second half: the clipped speckle texture
RectTexture(r) ==
  LET b == Block(r)
      trips == Trips(RMul(Area(b), RDec(8, 3)))
      s0 == Draws(r.s, 5 * (trips - 1))
      d1 == random(s0)
      d2 == random(d1.s)
      d3 == random(d2.s)
      d4 == random(d3.s)
      d5 == random(d4.s)
      op == [op |-> "fillRect",
             a |-> <<RMul(d1.v, RDec(12, 2)), RAdd(b.x, RMul(d2.v, b.w)),
                     RAdd(b.y, RMul(d3.v, b.h)), RAdd(RMul(d4.v, RInt(2)), RInt(1)),
                     RAdd(RMul(d5.v, RInt(2)), RInt(1))>>]
  IN IF trips = 0 THEN NextBlock(r)
     ELSE NextBlock([Issue(r, "block", trips, op) EXCEPT !.s = d5.s, !.draws = @ + 5 * trips])

\* (random() - 0.5) * m
Jitter(v, m) == RMul(RSub(v, RDec(5, 1)), RInt(m))

\* gen2 drawBrushStroke, d being its first two draws: off = random() * 1000,
\* bristles = 3 + floor(random() * 4); then one line width per bristle
Bristles(r, d, x1, y1, x2, y2, color, width, alpha, used) ==
  LET bristles == 3 + FloorTimes(d[2].v, 4)
  IN [Issue(r, "block", bristles,
            [op |-> "brushStroke", a |-> <<color, alpha, x1, y1, x2, y2, width, bristles>>])
      EXCEPT !.s = Draws(d[2].s, bristles), !.draws = @ + used + 2 + bristles]

drawBrushStroke(r, s, x1, y1, x2, y2, color, width, alpha, used) ==
  Bristles(r, randoms(s, 2), x1, y1, x2, y2, color, width, alpha, used)

\* gen2 paintRect: base colour and brush direction
PaintRect(r) ==
  LET b == Block(r)
      d1 == random(r.s)                               \* baseColor = pick(colors[colorKey])
      d2 == random(d1.s)                              \* horizontal = random() > 0.5
  IN [r EXCEPT !.s = d2.s, !.draws = @ + 2, !.pc = "paintLayer",
               !.paint = [baseColor |-> pick(variants(r.variant, b.col), d1.v),
                          horizontal |-> Gt(d2.v, 5), layer |-> 0,
                          strokeWidth |-> Zero, spacing |-> Zero, at |-> Zero,
                          step |-> Zero, m |-> 0, j |-> 0]]

\* the far side of the stroke loop: y + h - spacing / 2 (or x + w - ...)
StrokeLimit(r) ==
  LET b == Block(r)
      far == IF r.paint.horizontal THEN RAdd(b.y, b.h) ELSE RAdd(b.x, b.w)
  IN RSub(far, RMul(r.paint.spacing, RDec(5, 1)))

\* after the stroke loop of a layer: the next layer, or the edge strokes
NextLayer(r) ==
  IF r.paint.layer + 1 < 3
  THEN [r EXCEPT !.paint.layer = @ + 1, !.pc = "paintLayer"]
  ELSE [r EXCEPT !.pc = "edgeCount"]

\* the test of the stroke loop: sy < y + h - spacing / 2 (or sx < x + w - ...)
StrokeLoop(q) == IF RLt(q.paint.at, StrokeLimit(q)) THEN q ELSE NextLayer(q)

\* strokeWidth = 8 + random() * 12; spacing = strokeWidth * (0.3 + random() * 0.3);
\* let sy = y + spacing (or sx = x + spacing)
Layer(r, near, strokeWidth, d) ==
  LET spacing == RMul(strokeWidth, RAdd(RDec(3, 1), RMul(d.v, RDec(3, 1))))
  IN StrokeLoop([r EXCEPT !.s = d.s, !.draws = @ + 2, !.pc = "stroke",
                          !.paint.strokeWidth = strokeWidth, !.paint.spacing = spacing,
                          !.paint.at = RAdd(near, spacing)])

LayerOf(r, near, d) == Layer(r, near, RAdd(RInt(8), RMul(d.v, RInt(12))), random(d.s))

\* gen2 paintRect: stroke width and spacing of one layer, loop initialiser
PaintLayer(r) == LayerOf(r, IF r.paint.horizontal THEN Block(r).y ELSE Block(r).x, random(r.s))

\* the increment of the stroke loop: sy += spacing * (0.8 + random() * 0.4)
Advance(q, d) ==
  LET step == RMul(q.paint.spacing, RAdd(RDec(8, 1), RMul(d.v, RDec(4, 1))))
  IN StrokeLoop([q EXCEPT !.s = d.s, !.draws = @ + 1, !.paint.step = step,
                          !.paint.at = RAdd(@, step)])

StrokeStep(q) == Advance(q, random(q.s))

\* the body of the stroke loop, d being its seven draws: the stroke colour
\* (three), then along the stroke start = x + random() * 10 - 5 and
\* end = x + w + random() * 10 - 5, across it sy + (random() - 0.5) * 4 and
\* sy + (random() - 0.5) * 8
StrokeBody(r, b, rgb, d) ==
  LET strokeColor == rgbToHex(RAdd(RInt(rgb[1]), Jitter(d[1].v, 35)),
                              RAdd(RInt(rgb[2]), Jitter(d[2].v, 35)),
                              RAdd(RInt(rgb[3]), Jitter(d[3].v, 35)))
      lo == IF r.paint.horizontal THEN b.x ELSE b.y
      len == IF r.paint.horizontal THEN b.w ELSE b.h
      start == RSub(RAdd(lo, RMul(d[4].v, RInt(10))), RInt(5))
      end == RSub(RAdd(RAdd(lo, len), RMul(d[5].v, RInt(10))), RInt(5))
      c1 == RAdd(r.paint.at, Jitter(d[6].v, 4))
      c2 == RAdd(r.paint.at, Jitter(d[7].v, 8))
      alpha == IF r.paint.layer = 0 THEN 7 ELSE 4
  IN IF r.paint.horizontal
     THEN drawBrushStroke(r, d[7].s, start, c1, end, c2, strokeColor,
                          r.paint.strokeWidth, alpha, 7)
     ELSE drawBrushStroke(r, d[7].s, c1, start, c2, end, strokeColor,
                          r.paint.strokeWidth, alpha, 7)

\* gen2 paintRect: one stroke of a layer and the loop's increment and test
Stroke(r) == StrokeStep(StrokeBody(r, Block(r), hexToRgb(r.paint.baseColor), randoms(r.s, 7)))

\* gen2 varyColor(hex, random, amount)
varyColor(hex, v1, v2, v3, amount) ==
  rgbToHex(RAdd(RInt(hexToRgb(hex)[1]), Jitter(v1, amount)),
           RAdd(RInt(hexToRgb(hex)[2]), Jitter(v2, amount)),
           RAdd(RInt(hexToRgb(hex)[3]), Jitter(v3, amount)))

\* const edgeStrokes = 4 + Math.floor(random() * 4)
EdgeCount(r) ==
  LET d == random(r.s)
  IN [r EXCEPT !.s = d.s, !.draws = @ + 1, !.pc = "edgeStroke",
               !.paint.m = 4 + FloorTimes(d.v, 4), !.paint.j = 0]

\* the body of the edge loop, d being its seven draws: edge = floor(random() * 4),
\* the colour (three), strokeWidth = 6 + random() * 8, sy = y + random() * 15
\* (and the like for the other edges), and the far end sy + (random() - 0.5) * 6
EdgeBody(r, b, d) ==
  LET edge == FloorTimes(d[1].v, 4)
      strokeColor == varyColor(r.paint.baseColor, d[2].v, d[3].v, d[4].v, 25)
      strokeWidth == RAdd(RInt(6), RMul(d[5].v, RInt(8)))
      inward == RMul(d[6].v, RInt(15))
      c1 == CASE edge = 0 -> RAdd(b.y, inward)
              [] edge = 1 -> RSub(RAdd(b.y, b.h), inward)
              [] edge = 2 -> RAdd(b.x, inward)
              [] OTHER -> RSub(RAdd(b.x, b.w), inward)
      c2 == RAdd(c1, Jitter(d[7].v, 6))
  IN IF edge < 2
     THEN drawBrushStroke(r, d[7].s, b.x, c1, RAdd(b.x, b.w), c2, strokeColor, strokeWidth, 5, 7)
     ELSE drawBrushStroke(r, d[7].s, c1, b.y, c2, RAdd(b.y, b.h), strokeColor, strokeWidth, 5, 7)

\* the end of one iteration of the edge loop: i++ and the test i < edgeStrokes
NextEdge(q) ==
  [q EXCEPT !.paint.j = @ + 1,
            !.pc = IF q.paint.j + 1 < q.paint.m THEN "edgeStroke" ELSE "highlightCount"]

\* gen2 paintRect: one edge-buildup stroke
EdgeStroke(r) == NextEdge(EdgeBody(r, Block(r), randoms(r.s, 7)))

\* const highlightStrokes = 2 + Math.floor(random() * 3)
HighlightCount(r) ==
  LET d == random(r.s)
  IN [r EXCEPT !.s = d.s, !.draws = @ + 1, !.pc = "highlightStroke",
               !.paint.m = 2 + FloorTimes(d.v, 3), !.paint.j = 0]

\* the body of the highlight loop, d being its eight draws: hx = x + random() * w * 0.8,
\* hy = y + random() * h * 0.8, hlen = 30 + random() * 60, hangle, lightColor
\* (three) and the width 4 + random() * 6.  The far end of the stroke is
\* hx + cos(hangle) * hlen, hy + sin(hangle) * hlen; the operation is recorded
\* by hx, hy, hlen and the deviation (random() - 0.5) * 0.3 of hangle from the
\* brush direction.
HighlightBody(r, b, rgb, d) ==
  drawBrushStroke(r, d[8].s,
                  RAdd(b.x, RMul(RMul(d[1].v, b.w), RDec(8, 1))),
                  RAdd(b.y, RMul(RMul(d[2].v, b.h), RDec(8, 1))),
                  RAdd(RInt(30), RMul(d[3].v, RInt(60))),
                  RMul(RSub(d[4].v, RDec(5, 1)), RDec(3, 1)),
                  rgbToHex(RMin(RInt(255), RAdd(RInt(rgb[1] + 40), RMul(d[5].v, RInt(30)))),
                           RMin(RInt(255), RAdd(RInt(rgb[2] + 40), RMul(d[6].v, RInt(30)))),
                           RMin(RInt(255), RAdd(RInt(rgb[3] + 40), RMul(d[7].v, RInt(30))))),
                  RAdd(RInt(4), RMul(d[8].v, RInt(6))), 3, 8)

\* the end of one iteration of the highlight loop, the last statement of paintRect
NextHighlight(q) ==
  IF q.paint.j + 1 < q.paint.m THEN [q EXCEPT !.paint.j = @ + 1]
  ELSE NextBlock([q EXCEPT !.paint.j = @ + 1])

\* gen2 paintRect: one highlight stroke
HighlightStroke(r) ==
  NextHighlight(HighlightBody(r, Block(r), hexToRgb(r.paint.baseColor), randoms(r.s, 8)))

\* Math.abs(a), here the length Math.hypot gives an axis-aligned segment
RAbs(a) == Rat(FALSE, a.mag, a.k, a.j)

\* one stroke pass of drawLine: <<alpha of the stroke style, line width>>;
\* part_000 adds random() * 0.3 to the width, gen2 does not
Pass(stroke, thickness, jitter) ==
  <<IF stroke = 0 THEN RInt(1) ELSE RSub(RDec(25, 2), RMul(RInt(stroke), RDec(8, 2))),
    RAdd(RMul(thickness, RSub(RInt(1), RMul(RInt(stroke), RDec(15, 2)))), jitter)>>

\* + random() * 0.3 on the line width of a pass, in part_000 only
WidthJitter(part, d) == IF part THEN RMul(d.v, RDec(3, 1)) ELSE Zero

\* the end of one iteration of lines.forEach
NextLine(q, part) ==
  IF q.i + 1 < q.n THEN [q EXCEPT !.i = @ + 1]
  ELSE [q EXCEPT !.pc = IF part THEN "overlayBegin" ELSE "done"]

\* drawLine, d being the draws it may make: d[1] off = random() * 1000, and in
\* part_000 one per pass; steps = Math.max(15, len / 6), a vertex for each of
\* i = 0 .. floor(steps)
Passes(r, l, d, part) ==
  NextLine([Issue(r, "line", 3,
                  [op |-> "drawLine",
                   a |-> <<l.x1, l.y1, l.x2, l.y2,
                           Max(15, RFloor(RAbs(RAdd(RSub(l.x2, l.x1), RSub(l.y2, l.y1))),
                                          0, 4095) \div 6) + 1,
                           RMul(noise(r.p, RMul(d[1].v, RInt(1000))), RDec(18, 1)),
                           Pass(0, l.t, WidthJitter(part, d[2])),
                           Pass(1, l.t, WidthJitter(part, d[3])),
                           Pass(2, l.t, WidthJitter(part, d[4]))>>])
            EXCEPT !.s = IF part THEN d[4].s ELSE d[1].s,
                   !.draws = @ + (IF part THEN 4 ELSE 1)], part)

\* drawLine(l.x1, l.y1, l.x2, l.y2, l.t): three stroke passes along the segment
drawLine(r) == Passes(r, r.lines[r.i + 1], randoms(r.s, 4), Is(r, "part_000"))

\* part_000: ctx.globalCompositeOperation = 'multiply'
OverlayBegin(r) == [r EXCEPT !.composite = "multiply", !.pc = "overlay"]
\* part_000: final texture overlay
Overlay(r) == [Specks(r, OverlayDots, 15, 2, "overlay") EXCEPT !.pc = "overlayEnd"]
\* a run that ends without resetting the composite mode: what C11 rules out
OverlayKept(r) == [r EXCEPT !.pc = "done"]

\* part_000: ctx.globalCompositeOperation = 'source-over'
OverlayEnd(r) == [r EXCEPT !.composite = "source-over", !.pc = "done"]

(***************************************************************************)
(* The run as a state machine.  generate() runs to completion on one       *)
(* thread; `twin` is a second, independent run of the same component with  *)
(* the same seed and canvas: off in Spec; in SpecPair the two runs take    *)
(* their steps in turn, so that they are compared step for step.           *)
(***************************************************************************)
Step(r) ==
  CASE r.pc = "idle" -> generate(r)
    [] r.pc = "background" -> Background(r)
    [] r.pc = "paper" -> PaperTexture(r)
    [] r.pc = "weave" -> WeaveRow(r)
    [] r.pc = "numLongLines" -> NumLongLines(r)
    [] r.pc = "longLine" -> LongLine(r)
    [] r.pc = "numMedLines" -> NumMedLines(r)
    [] r.pc = "medLine" -> MedLine(r)
    [] r.pc = "numShortLines" -> NumShortLines(r)
    [] r.pc = "shortLine" -> ShortLine(r)
    [] r.pc = "numDashes" -> NumDashes(r)
    [] r.pc = "dash" -> Dash(r)
    [] r.pc = "numBlocks" -> NumBlocks(r)
    [] r.pc = "block" -> PlaceBlock(r)
    [] r.pc = "drawRect" -> DrawRect(r)
    [] r.pc = "rectTexture" -> RectTexture(r)
    [] r.pc = "paintRect" -> PaintRect(r)
    [] r.pc = "paintLayer" -> PaintLayer(r)
    [] r.pc = "stroke" -> Stroke(r)
    [] r.pc = "edgeCount" -> EdgeCount(r)
    [] r.pc = "edgeStroke" -> EdgeStroke(r)
    [] r.pc = "highlightCount" -> HighlightCount(r)
    [] r.pc = "highlightStroke" -> HighlightStroke(r)
    [] r.pc = "drawLine" -> drawLine(r)
    [] r.pc = "overlayBegin" -> OverlayBegin(r)
    [] r.pc = "overlay" -> Overlay(r)
    [] r.pc = "overlayEnd" -> OverlayEnd(r)
    [] OTHER -> r

\* whose step comes after a step of the run
Turn == IF twin.pc = "off" THEN "run" ELSE "twin"

Do(pc, next) ==
  /\ turn = "run"
  /\ run.pc = pc
  /\ run' = next
  /\ turn' = Turn
  /\ steps' = steps + 1
  /\ UNCHANGED twin

Generate == Do("idle", generate(run))

\* createNoise() shuffles by Math.random(): any stream may come
CreateNoise == \E stream \in Streams : Do("noise", Noise(run, stream))

\* the same step of the second run
TwinStep ==
  /\ turn = "twin"
  /\ IF twin.pc = "noise" THEN \E stream \in Streams : twin' = Noise(twin, stream)
     ELSE twin' = Step(twin)
  /\ turn' = "run"
  /\ UNCHANGED <<run, steps>>

FillBackground == Do("background", Background(run))
Paper == Do("paper", PaperTexture(run))
Weave == Do("weave", WeaveRow(run))
LongLines == Do("numLongLines", NumLongLines(run)) \/ Do("longLine", LongLine(run))
MedLines == Do("numMedLines", NumMedLines(run)) \/ Do("medLine", MedLine(run))
ShortLines == Do("numShortLines", NumShortLines(run)) \/ Do("shortLine", ShortLine(run))
Dashes == Do("numDashes", NumDashes(run)) \/ Do("dash", Dash(run))
Blocks == Do("numBlocks", NumBlocks(run)) \/ Do("block", PlaceBlock(run))
DrawRects == Do("drawRect", DrawRect(run)) \/ Do("rectTexture", RectTexture(run))
PaintRects ==
  \/ Do("paintRect", PaintRect(run))
  \/ Do("paintLayer", PaintLayer(run))
  \/ Do("stroke", Stroke(run))
  \/ Do("edgeCount", EdgeCount(run))
  \/ Do("edgeStroke", EdgeStroke(run))
  \/ Do("highlightCount", HighlightCount(run))
  \/ Do("highlightStroke", HighlightStroke(run))
DrawLines == Do("drawLine", drawLine(run))
FinalOverlay ==
  \/ Do("overlayBegin", OverlayBegin(run))
  \/ Do("overlay", Overlay(run))
  \/ Do("overlayEnd", OverlayEnd(run))

Next ==
  \/ Generate \/ CreateNoise \/ FillBackground \/ Paper \/ Weave
  \/ LongLines \/ MedLines \/ ShortLines \/ Dashes \/ Blocks
  \/ DrawRects \/ PaintRects \/ DrawLines \/ FinalOverlay

Canvases == {NoSurface} \cup {Surface(sz) : sz \in Sizes}

Init ==
  /\ \E variant \in Variants, seed \in Seeds, canvas \in Canvases :
       run = NewRun(variant, seed, canvas)
  /\ twin = Off
  /\ turn = "run"
  /\ steps = 0

Spec == Init /\ [][Next]_vars

\* generate() runs to completion once called: no step of it waits on
\* anything, so a run that has not returned takes its next step
Running == run.pc \notin {"done", "returned"} /\ steps' = steps + 1

FairSpec == Spec /\ WF_steps(Running)

\* two runs of one component: same file, same seed, same 600 x 600 canvas
\* (the size the JSX gives the canvas element)
InitPair ==
  /\ \E variant \in Variants, seed \in Seeds :
       run = NewRun(variant, seed, Surface(<<600, 600>>))
  /\ twin = run
  /\ turn = "run"
  /\ steps = 0

NextPair == Next \/ TwinStep

SpecPair == InitPair /\ [][NextPair]_vars

(***************************************************************************)
(* The PRNG on its own: one call of random() per step, from seeds that     *)
(* include both preimages of 0x7fffffff under the exact LCG, the largest   *)
(* seed whose product is still an exact double (8162277), and the ends     *)
(* of the 32-bit range.                                                    *)
(***************************************************************************)
MaxDraws == 12

PrngSeeds ==
  {0, 1, -1, 2, 42, 8162277, 8162278, 230538014, -1916945634, 1073741823,
   2147483646, 2147483647, -2147483647}

InitPrng ==
  /\ \E seed \in PrngSeeds :
       run = [pc |-> "random", seed |-> seed, s |-> seed, draws |-> 0, v |-> Zero]
  /\ twin = Off
  /\ turn = "run"
  /\ steps = 0

Random ==
  /\ run.pc = "random"
  /\ run.draws < MaxDraws
  /\ run' = [run EXCEPT !.s = random(run.s).s, !.v = random(run.s).v, !.draws = @ + 1]
  /\ UNCHANGED <<twin, turn, steps>>

SpecPrng == InitPrng /\ [][Random]_vars

(***************************************************************************)
(* C1.  Every value random() returns lies in [0, 1): the state s stays in  *)
(* 0 .. 0x7ffffffe, so s / 0x7fffffff is never 1.                          *)
(***************************************************************************)
C1_UnitInterval ==
  run.draws > 0 =>
    /\ run.s \in 0..(IntMax - 1)
    /\ RLe(Zero, run.v)
    /\ RLt(run.v, RInt(1))

\* twelve draws made from a preimage of 0x7fffffff under the exact LCG
C1_Witness ==
  /\ run.pc = "random"
  /\ run.seed \in {230538014, -1916945634}
  /\ run.draws = MaxDraws
  /\ RLt(Zero, run.v)

(***************************************************************************)
(* C2.  Determinism: two runs of generate with the same seed on the same   *)
(* canvas issue the same drawing operations with the same arguments.       *)
(* Compared after each pair of steps: the operation either run issued last *)
(* and the number of operations issued in each phase.                      *)
(***************************************************************************)
C2_SameDrawing ==
  (turn = "run" /\ twin.pc # "off") => (run.last = twin.last /\ run.ops = twin.ops)

(***************************************************************************)
(* C3.  Layout determinism: two runs with the same seed on the same canvas *)
(* hold the same block list and the same line list, in the same order,     *)
(* and the same PRNG state, whatever noise tables they have built.         *)
(***************************************************************************)
C3_SameLayout ==
  (turn = "run" /\ twin.pc # "off") =>
    (run.blocks = twin.blocks /\ run.lines = twin.lines /\ run.s = twin.s)

\* both runs finished, with different noise tables and a layout to compare
C3_Witness ==
  /\ turn = "run"
  /\ run.pc = "done"
  /\ twin.pc = "done"
  /\ run.p # twin.p
  /\ Len(run.blocks) > 1
  /\ Len(run.lines) > 1

(***************************************************************************)
(* C4.  Overlap bound.  The state in which block placement has just ended  *)
(* is the one the bound is stated for.                                     *)
(***************************************************************************)
EndOfPlacement ==
  /\ run.numBlocks > 0
  /\ run.examined = run.numBlocks
  /\ run.pc \in {"drawRect", "paintRect"}
  /\ run.i = 0

\* C4 as the spec has it: no two accepted blocks intersect in more than the
\* configured fraction of the area of the smaller of the two
C4_OfSmaller ==
  EndOfPlacement =>
    \A i, j \in 1..Len(run.blocks) :
      i < j =>
        RLe(Intersection(run.blocks[i], run.blocks[j]),
            RMul(RMin(Area(run.blocks[i]), Area(run.blocks[j])),
                 RDec(Threshold(run.variant), 1)))

\* C4 as the code has it: no accepted block intersects a block accepted
\* before it in more than the configured fraction of its own area
C4_OfLater ==
  EndOfPlacement =>
    \A i, j \in 1..Len(run.blocks) :
      i < j =>
        RLe(Intersection(run.blocks[j], run.blocks[i]),
            RMul(Area(run.blocks[j]), RDec(Threshold(run.variant), 1)))

\* placement ended with a block more than the fraction of which lies under
\* a block accepted after it
C4_Witness ==
  /\ EndOfPlacement
  /\ \E i, j \in 1..Len(run.blocks) :
       /\ i < j
       /\ RLt(RMul(Area(run.blocks[i]), RDec(Threshold(run.variant), 1)),
              Intersection(run.blocks[i], run.blocks[j]))

(***************************************************************************)
(* C5.  Block containment: on a canvas of positive width and height every  *)
(* accepted block lies within the canvas grown by a fixed margin, here the *)
(* inset (20 or 15) the code itself places blocks by.                      *)
(***************************************************************************)
C5_BlocksContained ==
  (EndOfPlacement /\ run.W > 0 /\ run.H > 0) =>
    \A k \in 1..Len(run.blocks) :
      /\ RLe(RInt(0 - Inset(run.variant)), run.blocks[k].x)
      /\ RLe(RAdd(run.blocks[k].x, run.blocks[k].w), RInt(run.W + Inset(run.variant)))
      /\ RLe(RInt(0 - Inset(run.variant)), run.blocks[k].y)
      /\ RLe(RAdd(run.blocks[k].y, run.blocks[k].h), RInt(run.H + Inset(run.variant)))

(***************************************************************************)
(* C6.  Line containment: on a canvas of positive width and height every   *)
(* line of the medium, short and dash tiers has both ends on the canvas.   *)
(***************************************************************************)
C6_LinesContained ==
  (run.W > 0 /\ run.H > 0) =>
    \A k \in 1..Len(run.lines) :
      run.lines[k].tier # "long" =>
        /\ RLe(Zero, run.lines[k].x1) /\ RLe(run.lines[k].x2, RInt(run.W))
        /\ RLe(Zero, run.lines[k].y1) /\ RLe(run.lines[k].y2, RInt(run.H))

(***************************************************************************)
(* C7.  With no canvas, generate returns at once: no drawing operation, no *)
(* draw from the PRNG, no noise table; the component is as constructed.    *)
(***************************************************************************)
C7_NoSurfaceNoOp ==
  ~run.canvas.present =>
    /\ run.pc \in {"idle", "returned"}
    /\ [run EXCEPT !.pc = "idle"] = NewRun(run.variant, run.seed, NoSurface)

\* generate has been called on a component whose canvas ref is null
C7_Witness == ~run.canvas.present /\ run.pc = "returned"

(***************************************************************************)
(* C8.  Invalid dimensions: on a canvas whose width or height is <= 0 no   *)
(* drawing operation is ever issued.                                       *)
(***************************************************************************)
C8_NothingDrawn ==
  (run.canvas.present /\ (run.canvas.width <= 0 \/ run.canvas.height <= 0)) =>
    run.ops = NoOps

(***************************************************************************)
(* C9.  Bounded computation: a run on a canvas of positive size ends; the  *)
(* placement loop draws numBlocks in 10..17, examines one candidate per    *)
(* iteration, numBlocks in all, and accepts between 1 and numBlocks of     *)
(* them; the rendering loops with a computed step (the brush strokes of a  *)
(* layer, the rows of the weave) move forward at every iteration.          *)
(***************************************************************************)
C9_Budget ==
  /\ run.numBlocks = 0 \/ run.numBlocks \in 10..17
  /\ run.pc = "block" =>
       /\ run.examined = run.i
       /\ run.examined < run.numBlocks
       /\ Len(run.blocks) <= run.examined
       /\ run.examined > 0 => Len(run.blocks) >= 1
  /\ (run.numBlocks > 0 /\ run.pc # "block") =>
       /\ run.examined = run.numBlocks
       /\ Len(run.blocks) \in 1..run.numBlocks

C9_Advance ==
  /\ run.pc = "block" =>
       /\ run'.examined = run.examined + 1
       /\ run'.pc = "block" => run'.i = run.i + 1
       /\ Len(run'.blocks) \in {Len(run.blocks), Len(run.blocks) + 1}
  /\ run.pc = "stroke" =>
       /\ RLt(Zero, run'.paint.step)
       /\ RLt(run.paint.at, run'.paint.at)
  /\ run.pc = "weave" => run'.i > run.i

C9_Positive == run.canvas.present /\ run.canvas.width > 0 /\ run.canvas.height > 0

C9_Bounded ==
  /\ []C9_Budget
  /\ [][C9_Advance]_vars
  /\ (C9_Positive ~> run.pc = "done")

\* a finished run of gen2.js on a canvas of positive size in which some
\* candidate was rejected and brush strokes were painted
C9_Witness ==
  /\ run.pc = "done"
  /\ run.variant = "gen2"
  /\ C9_Positive
  /\ Len(run.blocks) < run.numBlocks
  /\ run.examined = run.numBlocks
  /\ run.ops.block > 0

(***************************************************************************)
(* C10.  pick yields a palette colour: every accepted block has a colour   *)
(* category of the palette, and the colour a block is painted in is one of *)
(* the variants of its category (never the undefined of an index == length).*)
(***************************************************************************)
C10_PaletteColour ==
  /\ \A k \in 1..Len(run.blocks) : run.blocks[k].col \in DOMAIN colors(run.variant)
  /\ run.pc \in {"paintLayer", "stroke", "edgeCount", "edgeStroke",
                 "highlightCount", "highlightStroke"} =>
       \E n \in 1..Len(colors(run.variant)[Block(run).col]) :
         run.paint.baseColor = colors(run.variant)[Block(run).col][n]
  /\ run.pc = "rectTexture" =>
       \E n \in 1..Len(colors(run.variant)[Block(run).col]) :
         run.last.a[1] = colors(run.variant)[Block(run).col][n]

\* a block of the last category of colorKeys (index 7) being painted in the
\* last variant of its list
C10_Witness ==
  /\ run.pc \in {"paintLayer", "rectTexture"}
  /\ Block(run).col = "lightBlue"
  /\ (IF run.pc = "paintLayer" THEN run.paint.baseColor ELSE run.last.a[1]) =
       colors(run.variant)["lightBlue"][3]

(***************************************************************************)
(* C11.  Fixed paint order: the background fill, then the background       *)
(* texture, then the blocks, then the lines, then (part_000) the overlay.  *)
(* A step that issues operations of one phase finds the background filled  *)
(* and no operation of a later phase issued; lines are drawn only after    *)
(* the last block, the overlay only after the last line and under          *)
(* 'multiply', and the run ends under 'source-over'.                       *)
(***************************************************************************)
Phases == <<"fill", "texture", "block", "line", "overlay">>

C11_Step ==
  \A a \in 1..Len(Phases) :
    run'.ops[Phases[a]] > run.ops[Phases[a]] =>
      /\ \A b \in (a + 1)..Len(Phases) : run'.ops[Phases[b]] = 0
      /\ run'.ops.fill = 1
      /\ Phases[a] = "overlay" => run.composite = "multiply"
      /\ Phases[a] # "overlay" => run.composite = "source-over"

C11_Phase ==
  /\ run.ops.line > 0 => run.pc \in {"drawLine", "overlayBegin", "overlay", "overlayEnd", "done"}
  /\ run.ops.overlay > 0 =>
       /\ run.variant = "part_000"
       /\ run.ops.line = 3 * Len(run.lines)
       /\ run.pc \in {"overlayEnd", "done"}
  /\ run.composite = "multiply" => run.pc \in {"overlay", "overlayEnd"}
  /\ run.pc = "done" =>
       /\ run.composite = "source-over"
       /\ run.ops.line = 3 * Len(run.lines)
       /\ run.variant = "part_000" => run.ops.overlay = OverlayDots

C11_PaintOrder == []C11_Phase /\ [][C11_Step]_vars

\* a finished run of part_000 that has issued operations of all five phases
C11_Witness ==
  /\ run.pc = "done"
  /\ run.variant = "part_000"
  /\ \A a \in 1..Len(Phases) : run.ops[Phases[a]] > 0

(***************************************************************************)
(* createNoise() on its own.  The first FreeSwaps iterations of the        *)
(* shuffle take any of the values MathRandoms / 1024 of Math.random()      *)
(* (0, values that give j strictly inside 0 .. i, and the largest value,   *)
(* which gives j = i); the remaining iterations follow one of Streams.     *)
(* The closure is then sampled MaxSamples times at arguments that include  *)
(* the cells 0 and 255 and arguments beyond 256.                           *)
(***************************************************************************)
FreeSwaps == 3
MaxSamples == 2

MathRandoms == {0, 341, 512, 1023}

SampleAt == {RInt(0), RDec(5, 1), RDec(25575, 2), RInt(256), RDec(12499, 1)}

InitNoise ==
  /\ run = [pc |-> "shuffle", perm |-> [i \in 0..255 |-> i], i |-> 255, p |-> <<>>,
            X |-> 0, reads |-> {}, v |-> Zero, samples |-> 0]
  /\ twin = Off
  /\ turn = "run"
  /\ steps = 0

\* for (let i = 255; i > 0; i--) { j = ...; swap }: one of the first iterations
ShuffleStep ==
  /\ run.pc = "shuffle"
  /\ run.i > 255 - FreeSwaps
  /\ \E m \in MathRandoms : run' = [run EXCEPT !.perm = SwapAt(@, run.i, m), !.i = @ - 1]
  /\ UNCHANGED <<twin, turn, steps>>

\* the remaining iterations and const p = [...perm, ...perm]
ShuffleRest ==
  /\ run.pc = "shuffle"
  /\ run.i = 255 - FreeSwaps
  /\ \E stream \in Streams :
       run' = [run EXCEPT !.perm = Shuffle(@, run.i, 1, stream), !.i = 0,
                          !.p = Table(Shuffle(run.perm, run.i, 1, stream)),
                          !.pc = "noise"]
  /\ UNCHANGED <<twin, turn, steps>>

\* one call noise(x) of the closure
Sample ==
  /\ run.pc = "noise"
  /\ run.samples < MaxSamples
  /\ \E x \in SampleAt :
       run' = [run EXCEPT !.X = NoiseCell(x), !.reads = NoiseReads(x),
                          !.v = noise(run.p, x), !.samples = @ + 1]
  /\ UNCHANGED <<twin, turn, steps>>

NextNoise == ShuffleStep \/ ShuffleRest \/ Sample

SpecNoise == InitNoise /\ [][NextNoise]_vars

(***************************************************************************)
(* C12.  The noise table: perm stays a permutation of 0 .. 255 through the *)
(* shuffle whatever Math.random() returns; p has length 512, its first     *)
(* half is that permutation and its second half repeats the first; a       *)
(* sample reads p[X] and p[X + 1] with 0 <= X <= 255, both inside the      *)
(* table, and leaves the table as it was.                                  *)
(***************************************************************************)
C12_Table ==
  /\ DOMAIN run.perm = 0..255
  /\ \A n \in 0..255 : \E i \in 0..255 : run.perm[i] = n
  /\ run.pc = "noise" =>
       /\ Len(run.p) = 512
       /\ \A i \in 0..255 : At(run.p, i) = run.perm[i] /\ At(run.p, i + 256) = At(run.p, i)
  /\ run.samples > 0 =>
       /\ run.X \in 0..255
       /\ run.reads = {run.X, run.X + 1}
       /\ \A i \in run.reads : i + 1 \in DOMAIN run.p

C12_Sampling == run.pc = "noise" => (run'.p = run.p /\ run'.perm = run.perm)

C12_NoiseTable == []C12_Table /\ [][C12_Sampling]_vars

\* a table shuffled with j = i in one iteration and j strictly inside 0 .. i
\* in another, sampled in its last cell: the read of p[256]
C12_Witness ==
  /\ run.pc = "noise"
  /\ run.samples = MaxSamples
  /\ run.X = 255
  /\ At(run.p, 255) = 255
  /\ At(run.p, 254) # 254
  /\ At(run.p, 256) = At(run.p, 0)

(***************************************************************************)
(* The runs of both files with seed 3 on the 600 x 600 canvas: in part_000 *)
(* this seed draws a dash of thickness 1.44 whose second pass is given     *)
(* more width jitter than its first.                                       *)
(***************************************************************************)
LineSeeds == {3}

InitLines ==
  /\ \E variant \in Variants, seed \in LineSeeds :
       run = NewRun(variant, seed, Surface(<<600, 600>>))
  /\ twin = Off
  /\ turn = "run"
  /\ steps = 0

SpecLines == InitLines /\ [][Next]_vars

(***************************************************************************)
(* C13.  Line stroke passes: drawLine paints a segment in three passes,    *)
(* and both the alpha and the line width of a pass are strictly smaller    *)
(* than those of the pass before it.  The operation a drawLine step        *)
(* issues holds <<alpha, width>> of its passes at a[7], a[8] and a[9].     *)
(***************************************************************************)
C13_Decreasing ==
  run.last.op = "drawLine" =>
    /\ run.ops.line % 3 = 0
    /\ \A k \in 7..8 :
         /\ RLt(run.last.a[k + 1][1], run.last.a[k][1])
         /\ RLt(run.last.a[k + 1][2], run.last.a[k][2])

====
